---- MODULE Spec2Model ----
(***************************************************************************)
(* Model of explore_plans_ui (src/ui_code.py): the scatter-plot explorer   *)
(* of candidate schemes.  The state is the closure state of the routine    *)
(* (mode, xs, ys, scatter, annot), the main flow's position (pc) and, as   *)
(* observations, the step taken last with its input, what it printed and   *)
(* how many redraws it requested.                                          *)
(*                                                                         *)
(* Numbers.  Every float of the program is held as an integer number of    *)
(* hundredths (Units(40) is 40.00); candidate values are chosen so that    *)
(* every product is an exact number of hundredths.  A number printed with  *)
(* a format such as .1f is the record [m, dp, plus]: the mantissa after    *)
(* rounding to dp decimals, and whether the sign is forced.                *)
(*                                                                         *)
(* Text.  A string is a sequence of one-character strings.                 *)
(***************************************************************************)
EXTENDS Integers, Sequences, FiniteSets, TLC

VARIABLES
    plans,            \* argument: the candidate list, <<[node, sh]>>
    base_ergo,        \* argument (hundredths)
    base_recoil_ver,  \* argument (hundredths)
    base_recoil_hor,  \* argument (hundredths)
    pc,               \* "start" | "input" | "done" | "returned" | "raised"
    fig,              \* TRUE once plt.subplots() has created the figure
    handlers,         \* the events connected with mpl_connect
    mode,             \* "unset" before line 36, then "recoil" | "ergo"
    xs, ys,           \* current scatter coordinates
    scatter,          \* the plotted-points handle
    annot,            \* the hover annotation
    draws,            \* canvas.draw_idle() calls made by the last step
    printed,          \* what the last step printed (tree-printer calls included)
    last              \* the step taken last, its input and what it found

vars == <<plans, base_ergo, base_recoil_ver, base_recoil_hor, pc, fig,
          handlers, mode, xs, ys, scatter, annot, draws, printed, last>>

args == <<plans, base_ergo, base_recoil_ver, base_recoil_hor>>
view == <<mode, xs, ys, scatter, annot>>

-----------------------------------------------------------------------------
(* Bounds of the model *)

\* longest candidate list
MaxPlans == 2

-----------------------------------------------------------------------------
(* Numbers and their formatting *)

Units(n) == n * 100

\* a * b for a, b in hundredths
Mul(a, b) == (a * b) \div 100

Pow10(k) == IF k = 0 THEN 1 ELSE IF k = 1 THEN 10 ELSE 100

\* v (hundredths) rounded to dp decimals, ties to even: the mantissa
RoundTo(v, dp) ==
    LET unit == Pow10(2 - dp)
        q == v \div unit
        r == v % unit
    IN  IF 2 * r < unit THEN q
        ELSE IF 2 * r > unit THEN q + 1
        ELSE IF q % 2 = 0 THEN q ELSE q + 1

\* f"{v:.<dp>f}"
Fmt(v, dp) == [m |-> RoundTo(v, dp), dp |-> dp, plus |-> FALSE]

\* f"{n}" for an int n
FmtInt(n) == [m |-> n, dp |-> 0, plus |-> FALSE]

\* f"{v:+.<dp>f}"
FmtSigned(v, dp) == [m |-> RoundTo(v, dp), dp |-> dp, plus |-> TRUE]

-----------------------------------------------------------------------------
(* Text *)

Whitespace == {" ", "\t", "\n"}

LowerChar(c) ==
    CASE c = "Q" -> "q"
      [] c = "E" -> "e"
      [] c = "X" -> "x"
      [] c = "I" -> "i"
      [] c = "T" -> "t"
      [] c = "U" -> "u"
      [] OTHER -> c

\* str.lower()
lower(s) == [k \in 1..Len(s) |-> LowerChar(s[k])]

RECURSIVE lstrip(_)
lstrip(s) == IF s # <<>> /\ Head(s) \in Whitespace THEN lstrip(Tail(s)) ELSE s

RECURSIVE rstrip(_)
rstrip(s) ==
    IF s # <<>> /\ s[Len(s)] \in Whitespace
    THEN rstrip(SubSeq(s, 1, Len(s) - 1))
    ELSE s

\* str.strip()
strip(s) == rstrip(lstrip(s))

DecimalChars == {"0", "1", "2", "3", "4", "5", "6", "7", "8", "9"}

\* characters with the Unicode property Digit that are not decimal digits
OtherDigitChars == {"²"}

\* str.isdigit(): non-empty and every character a Unicode digit
isdigit(s) == s # <<>> /\ \A k \in 1..Len(s) : s[k] \in DecimalChars \cup OtherDigitChars

DigitValue(c) ==
    CASE c = "0" -> 0 [] c = "1" -> 1 [] c = "2" -> 2 [] c = "3" -> 3
      [] c = "4" -> 4 [] c = "5" -> 5 [] c = "6" -> 6 [] c = "7" -> 7
      [] c = "8" -> 8 [] c = "9" -> 9

RECURSIVE DecimalValue(_)
DecimalValue(s) ==
    IF s = <<>> THEN 0
    ELSE 10 * DecimalValue(SubSeq(s, 1, Len(s) - 1)) + DigitValue(s[Len(s)])

\* int(s) for a string without sign, blanks or underscores: the value, or ValueError
int(s) ==
    IF s # <<>> /\ \A k \in 1..Len(s) : s[k] \in DecimalChars
    THEN [ok |-> TRUE, val |-> DecimalValue(s)]
    ELSE [ok |-> FALSE, val |-> 0]

\* origin_name.replace("\n", " ")
replace_newline(s) == [k \in 1..Len(s) |-> IF s[k] = "\n" THEN " " ELSE s[k]]

\* s[:n]
Prefix(s, n) == SubSeq(s, 1, IF Len(s) < n THEN Len(s) ELSE n)

PresetInfoLen == 40


-----------------------------------------------------------------------------
(* The arguments: candidates and baselines *)

None == [none |-> TRUE, str |-> <<>>]
Str(s) == [none |-> FALSE, str |-> s]

\* a preset name of 41 characters with a line break in it
LongName == [k \in 1..41 |-> IF k = 3 THEN "\n" ELSE IF k = 41 THEN "z" ELSE "a"]

\* SchemeShell objects (the Summary of a candidate)
ShellA ==
    [total_cost |-> Units(100), total_recoil_benefit |-> 10, total_ergo |-> Units(5),
     origin_preset_id |-> "p1", origin_preset_name |-> Str(<<"A", "K">>),
     items |-> <<"grip", "stock">>]

ShellB ==
    [total_cost |-> Units(200), total_recoil_benefit |-> 20, total_ergo |-> Units(-3),
     origin_preset_id |-> "p2", origin_preset_name |-> None,
     items |-> <<"muzzle">>]

ShellC ==
    [total_cost |-> 15060, total_recoil_benefit |-> 0, total_ergo |-> 0,
     origin_preset_id |-> "p3", origin_preset_name |-> Str(LongName),
     items |-> <<>>]

\* (SchemeNode, SchemeShell) pairs
Pool == << [node |-> "nA", sh |-> ShellA],
           [node |-> "nB", sh |-> ShellB],
           [node |-> "nC", sh |-> ShellC] >>

\* the candidate lists: every run of at most MaxPlans candidates of the pool, taken
\* cyclically from any start
Window(start, len) == [k \in 1..len |-> Pool[((start + k - 2) % Len(Pool)) + 1]]

PlanLists == {Window(s, n) : s \in 1..Len(Pool), n \in 0..MaxPlans}

\* (base_ergo, base_recoil_ver, base_recoil_hor)
Baselines ==
    { <<Units(10), Units(40), Units(30)>>,
      <<Units(0), Units(1), Units(2)>>,
      <<Units(0), 110, 110>> }

ScenarioPlans == Window(1, 2)
ScenarioBaselines == <<Units(10), Units(40), Units(30)>>

-----------------------------------------------------------------------------
(* The terminal: what the user types *)

\* lines a user types at the prompt
TypedLines ==
    { <<"0">>,
      <<"5">>,
      <<"a", "b", "c">>,
      <<"q">>,
      <<" ", "Q", " ">>,
      <<>>,
      <<" ", "\t">>,
      <<"²">>,
      <<" ", "1">>,
      <<"0", "1">>,
      <<"-", "1">>,
      <<"q", "u", "i", "t">>,
      <<"E", "x", "i", "t">> }

-----------------------------------------------------------------------------
(* The drawing surface's objects *)

NoScatter == [none |-> TRUE, offsets |-> <<>>, picker |-> 0]
NoAnnot == [none |-> TRUE, xy |-> <<0, 0>>, text |-> <<>>, visible |-> FALSE]

PickRadius == 5

\* ax.scatter(xs, ys, picker=5)
ax_scatter(x, y) ==
    [none |-> FALSE, offsets |-> [k \in 1..Len(x) |-> <<x[k], y[k]>>], picker |-> PickRadius]

\* ax.annotate("", xy=(0, 0), ...)
ax_annotate == [none |-> FALSE, xy |-> <<0, 0>>, text |-> <<>>, visible |-> TRUE]

\* annot.set_visible(b)
set_visible(a, b) == [a EXCEPT !.visible = b]

Init ==
    /\ plans \in PlanLists
    /\ \E b \in Baselines :
          /\ base_ergo = b[1]
          /\ base_recoil_ver = b[2]
          /\ base_recoil_hor = b[3]
    /\ pc = "start"
    /\ fig = FALSE
    /\ handlers = {}
    /\ mode = "unset"
    /\ xs = <<>>
    /\ ys = <<>>
    /\ scatter = NoScatter
    /\ annot = NoAnnot
    /\ draws = 0
    /\ printed = <<>>
    /\ last = [kind |-> "call"]


-----------------------------------------------------------------------------
(* The closures of explore_plans_ui *)

\* plans[idx], for a 0-based idx
Plan(idx) == plans[idx + 1]

shells == [k \in 1..Len(plans) |-> plans[k].sh]

\* make_xy with the vertical baseline on the recoil axis
make_xy_vertical(m) ==
    [xs |-> [k \in 1..Len(shells) |-> shells[k].total_cost],
     ys |-> IF m = "recoil"
            THEN [k \in 1..Len(shells) |->
                    base_recoil_ver - Mul(shells[k].total_recoil_benefit, base_recoil_ver)]
            ELSE [k \in 1..Len(shells) |-> base_ergo + shells[k].total_ergo],
     y_label |-> "final vertical recoil"]

\* make_xy() under mode m: (xs, ys, y_label)
make_xy(m) ==
    [xs |-> [k \in 1..Len(shells) |-> shells[k].total_cost],
     ys |-> IF m = "recoil"
            THEN [k \in 1..Len(shells) |->
                    base_recoil_hor - Mul(shells[k].total_recoil_benefit, base_recoil_hor)]
            ELSE [k \in 1..Len(shells) |-> base_ergo + shells[k].total_ergo],
     y_label |-> IF m = "recoil"
                 THEN "final horizontal recoil (lower is better)"
                 ELSE "final ergonomics (higher is better)"]

\* redraw() keeping the annotation it has
redraw_keeps_annot(m) ==
    LET p == make_xy(m) IN
    /\ xs' = p.xs
    /\ ys' = p.ys
    /\ scatter' = ax_scatter(p.xs, p.ys)
    /\ annot' = IF annot.none THEN set_visible(ax_annotate, FALSE) ELSE annot
    /\ draws' = 1

\* redraw() under mode m: ax.clear(), new coordinates, new scatter, new hidden
\* annotation, one draw_idle()
redraw(m) ==
    LET p == make_xy(m) IN
    /\ xs' = p.xs
    /\ ys' = p.ys
    /\ scatter' = ax_scatter(p.xs, p.ys)
    /\ annot' = set_visible(ax_annotate, FALSE)
    /\ draws' = 1

\* one line of the tooltip
Line(label, nums, str) == [label |-> label, nums |-> nums, str |-> str]

\* the tooltip text with the recoil values of the detail report
TooltipText_scaled(idx) ==
    LET sh == Plan(idx).sh
        final_ergo == base_ergo + sh.total_ergo
        final_recoil_ver == base_recoil_ver - Mul(sh.total_recoil_benefit, base_recoil_ver)
        final_recoil_hor == base_recoil_hor - Mul(sh.total_recoil_benefit, base_recoil_hor)
        lines ==
            << Line("plan #", <<FmtInt(idx)>>, <<>>),
               Line("cost:", <<Fmt(sh.total_cost, 0)>>, <<>>),
               Line("verR:", <<Fmt(final_recoil_ver, 1),
                               FmtSigned(0 - sh.total_recoil_benefit, 2)>>, <<>>),
               Line("horR:", <<Fmt(final_recoil_hor, 1)>>, <<>>),
               Line("ergo:", <<Fmt(final_ergo, 1), FmtSigned(sh.total_ergo, 2)>>, <<>>) >>
        origin_name == sh.origin_preset_name
    IN  IF ~origin_name.none /\ origin_name.str # <<>>
        THEN Append(lines,
                    Line("", <<>>, Prefix(replace_newline(origin_name.str), PresetInfoLen)))
        ELSE lines

\* the tooltip text with the y value of the mode shown in place of the vertical recoil
TooltipText_of_mode(idx) ==
    LET sh == Plan(idx).sh
        final_ergo == base_ergo + sh.total_ergo
        final_recoil_ver == IF mode = "recoil"
                            THEN base_recoil_ver - sh.total_recoil_benefit
                            ELSE ys[idx + 1]
        final_recoil_hor == base_recoil_hor - sh.total_recoil_benefit
        lines ==
            << Line("plan #", <<FmtInt(idx)>>, <<>>),
               Line("cost:", <<Fmt(sh.total_cost, 0)>>, <<>>),
               Line("verR:", <<Fmt(final_recoil_ver, 1),
                               FmtSigned(0 - sh.total_recoil_benefit, 2)>>, <<>>),
               Line("horR:", <<Fmt(final_recoil_hor, 1)>>, <<>>),
               Line("ergo:", <<Fmt(final_ergo, 1), FmtSigned(sh.total_ergo, 2)>>, <<>>) >>
        origin_name == sh.origin_preset_name
    IN  IF ~origin_name.none /\ origin_name.str # <<>>
        THEN Append(lines,
                    Line("", <<>>, Prefix(replace_newline(origin_name.str), PresetInfoLen)))
        ELSE lines

\* the text update_annot(idx) builds
TooltipText(idx) ==
    LET sh == Plan(idx).sh
        final_ergo == base_ergo + sh.total_ergo
        final_recoil_ver == base_recoil_ver - sh.total_recoil_benefit
        final_recoil_hor == base_recoil_hor - sh.total_recoil_benefit
        lines ==
            << Line("plan #", <<FmtInt(idx)>>, <<>>),
               Line("cost:", <<Fmt(sh.total_cost, 0)>>, <<>>),
               Line("verR:", <<Fmt(final_recoil_ver, 1),
                               FmtSigned(0 - sh.total_recoil_benefit, 2)>>, <<>>),
               Line("horR:", <<Fmt(final_recoil_hor, 1)>>, <<>>),
               Line("ergo:", <<Fmt(final_ergo, 1), FmtSigned(sh.total_ergo, 2)>>, <<>>) >>
        origin_name == sh.origin_preset_name
    IN  IF ~origin_name.none /\ origin_name.str # <<>>
        THEN Append(lines,
                    Line("", <<>>, Prefix(replace_newline(origin_name.str), PresetInfoLen)))
        ELSE lines

\* update_annot(idx) applied to annotation a: the annotation afterwards
update_annot(a, idx) ==
    IF a.none THEN a
    ELSE IF idx < 0 \/ idx >= Len(plans) THEN a
    ELSE [a EXCEPT !.xy = <<xs[idx + 1], ys[idx + 1]>>, !.text = TooltipText(idx)]

\* the report of on_pick with the recoil values of the tooltip
PickReport_unscaled(idx) ==
    LET node == Plan(idx).node
        sh == Plan(idx).sh
        final_ergo == base_ergo + sh.total_ergo
        final_recoil_ver == base_recoil_ver - sh.total_recoil_benefit
        final_recoil_hor == base_recoil_hor - sh.total_recoil_benefit
    IN  << [tag |-> "header", idx |-> idx],
           [tag |-> "preset", id |-> sh.origin_preset_id, name |-> sh.origin_preset_name],
           [tag |-> "summary",
            cost |-> Fmt(sh.total_cost, 0),
            ergo |-> Fmt(final_ergo, 1), ergo_delta |-> FmtSigned(sh.total_ergo, 2),
            ver |-> Fmt(final_recoil_ver, 1),
            ver_delta |-> FmtSigned(0 - sh.total_recoil_benefit, 2),
            hor |-> Fmt(final_recoil_hor, 1),
            items |-> Len(sh.items)],
           [tag |-> "print_scheme_tree", node |-> node] >>

\* what on_pick prints for idx, the call of print_scheme_tree included
PickReport(idx) ==
    LET node == Plan(idx).node
        sh == Plan(idx).sh
        final_ergo == base_ergo + sh.total_ergo
        final_recoil_ver == base_recoil_ver - Mul(sh.total_recoil_benefit, base_recoil_ver)
        final_recoil_hor == base_recoil_hor - Mul(sh.total_recoil_benefit, base_recoil_hor)
    IN  << [tag |-> "header", idx |-> idx],
           [tag |-> "preset", id |-> sh.origin_preset_id, name |-> sh.origin_preset_name],
           [tag |-> "summary",
            cost |-> Fmt(sh.total_cost, 0),
            ergo |-> Fmt(final_ergo, 1), ergo_delta |-> FmtSigned(sh.total_ergo, 2),
            ver |-> Fmt(final_recoil_ver, 1),
            ver_delta |-> FmtSigned(0 - sh.total_recoil_benefit, 2),
            hor |-> Fmt(final_recoil_hor, 1),
            items |-> Len(sh.items)],
           [tag |-> "print_scheme_tree", node |-> node] >>

\* what the terminal loop prints for idx, the call of print_scheme_tree included
TerminalReport(idx) ==
    LET node == Plan(idx).node
        sh == Plan(idx).sh
        final_ergo == base_ergo + sh.total_ergo
        final_recoil_ver == base_recoil_ver - Mul(sh.total_recoil_benefit, base_recoil_ver)
        final_recoil_hor == base_recoil_hor - Mul(sh.total_recoil_benefit, base_recoil_hor)
    IN  << [tag |-> "header", idx |-> idx],
           [tag |-> "preset", id |-> sh.origin_preset_id, name |-> sh.origin_preset_name],
           [tag |-> "summary",
            cost |-> Fmt(sh.total_cost, 0),
            ergo |-> Fmt(final_ergo, 1), ergo_delta |-> FmtSigned(sh.total_ergo, 2),
            ver |-> Fmt(final_recoil_ver, 1),
            ver_delta |-> FmtSigned(0 - sh.total_recoil_benefit, 2),
            hor |-> Fmt(final_recoil_hor, 1),
            items |-> Len(sh.items)],
           [tag |-> "print_scheme_tree", node |-> node] >>

-----------------------------------------------------------------------------
(* Events of the drawing surface *)

RECURSIVE Ascending(_)
Ascending(S) ==
    IF S = {} THEN <<>>
    ELSE LET m == CHOOSE x \in S : \A y \in S : x <= y
         IN  <<m>> \o Ascending(S \ {m})

\* index lists a hit test can report: any points of the scatter, in point order; and
\* the two indices next to the range, which the handlers guard against
HitLists ==
    {Ascending(S) : S \in (SUBSET (0..(Len(plans) - 1))) \ {{}}}
    \cup {<<-1>>, <<Len(plans)>>}

\* a motion_notify_event with the answer scatter.contains(event) gives to it
HoverEvents ==
    {[inaxes |-> FALSE, contains |-> FALSE, has_ind |-> TRUE, ind |-> <<>>],
     [inaxes |-> TRUE, contains |-> FALSE, has_ind |-> TRUE, ind |-> <<>>],
     [inaxes |-> TRUE, contains |-> TRUE, has_ind |-> FALSE, ind |-> <<>>],
     [inaxes |-> TRUE, contains |-> TRUE, has_ind |-> TRUE, ind |-> <<>>]}
    \cup {[inaxes |-> TRUE, contains |-> TRUE, has_ind |-> TRUE, ind |-> s] : s \in HitLists}

\* a pick_event
PickEvents ==
    {[has_ind |-> FALSE, ind |-> <<>>], [has_ind |-> TRUE, ind |-> <<>>]}
    \cup {[has_ind |-> TRUE, ind |-> s] : s \in HitLists}

\* a key_press_event
KeyEvents == {[key |-> "r"], [key |-> "e"], [key |-> "x"]}

\* callbacks run while the main flow waits in input()
Dispatching(name) == pc = "input" /\ name \in handlers

\* on_hover taking the last of the points hit
on_hover_takes_last(event) ==
    /\ Dispatching("motion_notify_event")
    /\ last' = [kind |-> "on_hover", event |-> event, was_visible |-> annot.visible]
    /\ printed' = <<>>
    /\ IF ~event.inaxes
       THEN IF ~annot.none /\ annot.visible
            THEN annot' = set_visible(annot, FALSE) /\ draws' = 1
            ELSE annot' = annot /\ draws' = 0
       ELSE IF scatter.none \/ annot.none
       THEN annot' = annot /\ draws' = 0
       ELSE IF ~event.contains
       THEN IF annot.visible
            THEN annot' = set_visible(annot, FALSE) /\ draws' = 1
            ELSE annot' = annot /\ draws' = 0
       ELSE IF ~event.has_ind \/ Len(event.ind) = 0
       THEN annot' = annot /\ draws' = 0
       ELSE /\ annot' = set_visible(update_annot(annot, event.ind[Len(event.ind)]), TRUE)
            /\ draws' = 1
    /\ UNCHANGED <<args, pc, fig, handlers, mode, xs, ys, scatter>>

\* on_hover requesting a redraw whenever the pointer is off the points
on_hover_always_draws(event) ==
    /\ Dispatching("motion_notify_event")
    /\ last' = [kind |-> "on_hover", event |-> event, was_visible |-> annot.visible]
    /\ printed' = <<>>
    /\ IF ~event.inaxes
       THEN IF ~annot.none
            THEN annot' = set_visible(annot, FALSE) /\ draws' = 1
            ELSE annot' = annot /\ draws' = 0
       ELSE IF scatter.none \/ annot.none
       THEN annot' = annot /\ draws' = 0
       ELSE IF ~event.contains
       THEN annot' = set_visible(annot, FALSE) /\ draws' = 1
       ELSE IF ~event.has_ind \/ Len(event.ind) = 0
       THEN annot' = annot /\ draws' = 0
       ELSE /\ annot' = set_visible(update_annot(annot, event.ind[1]), TRUE)
            /\ draws' = 1
    /\ UNCHANGED <<args, pc, fig, handlers, mode, xs, ys, scatter>>

on_hover(event) ==
    /\ Dispatching("motion_notify_event")
    /\ last' = [kind |-> "on_hover", event |-> event, was_visible |-> annot.visible]
    /\ printed' = <<>>
    /\ IF ~event.inaxes
       THEN IF ~annot.none /\ annot.visible
            THEN annot' = set_visible(annot, FALSE) /\ draws' = 1
            ELSE annot' = annot /\ draws' = 0
       ELSE IF scatter.none \/ annot.none
       THEN annot' = annot /\ draws' = 0
       ELSE IF ~event.contains
       THEN IF annot.visible
            THEN annot' = set_visible(annot, FALSE) /\ draws' = 1
            ELSE annot' = annot /\ draws' = 0
       ELSE IF ~event.has_ind \/ Len(event.ind) = 0
       THEN annot' = annot /\ draws' = 0
       ELSE /\ annot' = set_visible(update_annot(annot, event.ind[1]), TRUE)
            /\ draws' = 1
    /\ UNCHANGED <<args, pc, fig, handlers, mode, xs, ys, scatter>>

\* on_pick showing the tooltip of the clicked point as well
on_pick_shows_tooltip(event) ==
    /\ Dispatching("pick_event")
    /\ last' = [kind |-> "on_pick", event |-> event]
    /\ draws' = 0
    /\ IF ~event.has_ind \/ Len(event.ind) = 0
       THEN printed' = <<>> /\ annot' = annot
       ELSE IF event.ind[1] < 0 \/ event.ind[1] >= Len(plans)
       THEN printed' = <<>> /\ annot' = annot
       ELSE /\ printed' = PickReport(event.ind[1])
            /\ annot' = set_visible(update_annot(annot, event.ind[1]), TRUE)
    /\ UNCHANGED <<args, pc, fig, handlers, mode, xs, ys, scatter>>

on_pick(event) ==
    /\ Dispatching("pick_event")
    /\ last' = [kind |-> "on_pick", event |-> event]
    /\ draws' = 0
    /\ IF ~event.has_ind \/ Len(event.ind) = 0
       THEN printed' = <<>>
       ELSE IF event.ind[1] < 0 \/ event.ind[1] >= Len(plans)
       THEN printed' = <<>>
       ELSE printed' = PickReport(event.ind[1])
    /\ UNCHANGED <<args, pc, fig, handlers, view>>

\* on_key redrawing before it assigns the mode
on_key_redraws_first(event) ==
    /\ Dispatching("key_press_event")
    /\ last' = [kind |-> "on_key", event |-> event, mode_was |-> mode,
                 was_visible |-> annot.visible]
    /\ IF event.key = "r"
       THEN /\ redraw(mode)
            /\ mode' = "recoil"
            /\ printed' = <<[tag |-> "mode", y |-> "final vertical recoil"]>>
       ELSE IF event.key = "e"
       THEN /\ redraw(mode)
            /\ mode' = "ergo"
            /\ printed' = <<[tag |-> "mode", y |-> "final ergonomics"]>>
       ELSE /\ printed' = <<>>
            /\ draws' = 0
            /\ UNCHANGED view
    /\ UNCHANGED <<args, pc, fig, handlers>>

\* on_key redrawing on every key
on_key_any_redraws(event) ==
    /\ Dispatching("key_press_event")
    /\ last' = [kind |-> "on_key", event |-> event, mode_was |-> mode,
                 was_visible |-> annot.visible]
    /\ IF event.key = "r"
       THEN /\ mode' = "recoil"
            /\ printed' = <<[tag |-> "mode", y |-> "final vertical recoil"]>>
            /\ redraw("recoil")
       ELSE IF event.key = "e"
       THEN /\ mode' = "ergo"
            /\ printed' = <<[tag |-> "mode", y |-> "final ergonomics"]>>
            /\ redraw("ergo")
       ELSE /\ printed' = <<>>
            /\ mode' = mode
            /\ redraw(mode)
    /\ UNCHANGED <<args, pc, fig, handlers>>

\* on_key returning early when the key names the mode already shown
on_key_skips_same_mode(event) ==
    /\ Dispatching("key_press_event")
    /\ last' = [kind |-> "on_key", event |-> event, mode_was |-> mode,
                 was_visible |-> annot.visible]
    /\ IF event.key = "r" /\ mode # "recoil"
       THEN /\ mode' = "recoil"
            /\ printed' = <<[tag |-> "mode", y |-> "final vertical recoil"]>>
            /\ redraw("recoil")
       ELSE IF event.key = "e" /\ mode # "ergo"
       THEN /\ mode' = "ergo"
            /\ printed' = <<[tag |-> "mode", y |-> "final ergonomics"]>>
            /\ redraw("ergo")
       ELSE /\ printed' = <<>>
            /\ draws' = 0
            /\ UNCHANGED view
    /\ UNCHANGED <<args, pc, fig, handlers>>

on_key(event) ==
    /\ Dispatching("key_press_event")
    /\ last' = [kind |-> "on_key", event |-> event, mode_was |-> mode,
                 was_visible |-> annot.visible]
    /\ IF event.key = "r"
       THEN /\ mode' = "recoil"
            /\ printed' = <<[tag |-> "mode", y |-> "final vertical recoil"]>>
            /\ redraw("recoil")
       ELSE IF event.key = "e"
       THEN /\ mode' = "ergo"
            /\ printed' = <<[tag |-> "mode", y |-> "final ergonomics"]>>
            /\ redraw("ergo")
       ELSE /\ printed' = <<>>
            /\ draws' = 0
            /\ UNCHANGED view
    /\ UNCHANGED <<args, pc, fig, handlers>>


-----------------------------------------------------------------------------
(* The main flow *)

\* the usage text printed once the window is open (lines 234-238)
Banner == [k \in 1..5 |-> [tag |-> "banner", line |-> k]]

\* the entry without its test for the empty list
Entry_draws_empty ==
    /\ pc = "start"
    /\ last' = [kind |-> "Entry"]
    /\ mode' = "recoil"
    /\ fig' = TRUE
    /\ handlers' = {"motion_notify_event", "pick_event", "key_press_event"}
    /\ redraw("recoil")
    /\ printed' = [k \in 1..5 |-> [tag |-> "banner", line |-> k]]
    /\ pc' = "input"
    /\ UNCHANGED args

\* explore_plans_ui from its call to the first prompt: the empty list returns at once,
\* any other list gets its figure, its callbacks and its first drawing.  No event is
\* dispatched before the first input().
Entry ==
    /\ pc = "start"
    /\ last' = [kind |-> "Entry"]
    /\ IF Len(plans) = 0
       THEN /\ printed' = <<[tag |-> "no_plans"]>>
            /\ pc' = "returned"
            /\ draws' = 0
            /\ UNCHANGED <<fig, handlers, view>>
       ELSE /\ mode' = "recoil"
            /\ fig' = TRUE
            /\ handlers' = {"motion_notify_event", "pick_event", "key_press_event"}
            /\ redraw("recoil")
            /\ printed' = Banner
            /\ pc' = "input"
    /\ UNCHANGED args

ExitTokens == { <<"q">>, <<"q", "u", "i", "t">>, <<"e", "x", "i", "t">> }

\* one iteration of the while loop on the line read: where the flow goes next and
\* what is printed
Iteration(line) ==
    LET s == lower(strip(line)) IN
    IF s \in ExitTokens THEN [pc |-> "done", out |-> <<>>]
    ELSE IF s = <<>> THEN [pc |-> "input", out |-> <<>>]
    ELSE IF ~isdigit(s) THEN [pc |-> "input", out |-> <<[tag |-> "usage"]>>]
    ELSE LET idx == int(s) IN
         IF ~idx.ok THEN [pc |-> "raised", out |-> <<>>]
         ELSE IF idx.val < 0 \/ idx.val >= Len(plans)
         THEN [pc |-> "input",
               out |-> <<[tag |-> "range", lo |-> 0, hi |-> Len(plans) - 1]>>]
         ELSE [pc |-> "input", out |-> TerminalReport(idx.val)]

\* the terminal loop reads the line typed and handles it
TerminalLoop(line) ==
    /\ pc = "input"
    /\ LET it == Iteration(line)
       IN  /\ pc' = it.pc
           /\ printed' = it.out
    /\ last' = [kind |-> "TerminalLoop", line |-> line]
    /\ draws' = 0
    /\ UNCHANGED <<args, fig, handlers, view>>

Next ==
    \/ Entry
    \/ \E line \in TypedLines : TerminalLoop(line)
    \/ \E event \in HoverEvents : on_hover(event)
    \/ \E event \in PickEvents : on_pick(event)
    \/ \E event \in KeyEvents : on_key(event)

Spec == Init /\ [][Next]_vars


-----------------------------------------------------------------------------
(* Properties *)

Modes == {"recoil", "ergo"}

\* the candidate indices
Indices == 0..(Len(plans) - 1)

KeyMode(key) == IF key = "r" THEN "recoil" ELSE "ergo"

BoundKeys == {"r", "e"}

\* C2: the display mode is recoil when the figure is first drawn and is always one of
\* recoil and ergo; a key-press 'r' sets it to recoil and 'e' to ergo; a key-press
\* with any other key changes neither the mode, nor the coordinates, nor the plotted
\* points, nor the tooltip, and requests no redraw.
C2_ModeMachine ==
    /\ [](fig => mode \in Modes)
    /\ []((last.kind = "Entry" /\ fig) => mode = "recoil")
    /\ [][last'.kind = "on_key" =>
            /\ last'.event.key = "r" => mode' = "recoil"
            /\ last'.event.key = "e" => mode' = "ergo"
            /\ last'.event.key \notin BoundKeys =>
                  /\ mode' = mode
                  /\ xs' = xs
                  /\ ys' = ys
                  /\ scatter' = scatter
                  /\ annot' = annot
                  /\ draws' = 0]_vars

\* an unbound key was pressed in mode ergo over a visible tooltip, which stays
C2_Witness ==
    /\ last.kind = "on_key"
    /\ last.event.key = "x"
    /\ mode = "ergo"
    /\ annot.visible
    /\ annot.text # <<>>
    /\ draws = 0

\* the state a redraw leaves for the mode shown
Redrawn ==
    /\ xs = make_xy(mode).xs
    /\ ys = make_xy(mode).ys
    /\ scatter = ax_scatter(xs, ys)
    /\ annot = [none |-> FALSE, xy |-> <<0, 0>>, text |-> <<>>, visible |-> FALSE]
    /\ draws = 1

\* C3: a key-press 'r' or 'e' leaves the mode the key names, so that pressing it in
\* that mode leaves the mode unchanged and pressing it twice gives the mode of pressing
\* it once; and every such key-press, the ones that do not change the mode included,
\* projects again and redraws.
C3_IdempotentRedraw ==
    /\ []((last.kind = "on_key" /\ last.event.key \in BoundKeys) =>
            mode = KeyMode(last.event.key) /\ Redrawn)
    /\ [][(last'.kind = "on_key" /\ last'.event.key \in BoundKeys
             /\ mode = KeyMode(last'.event.key)) =>
            mode' = mode /\ draws' = 1 /\ ~annot'.visible /\ annot'.text = <<>>]_vars
    /\ [][(last.kind = "on_key" /\ last'.kind = "on_key"
             /\ last'.event.key \in BoundKeys /\ last'.event.key = last.event.key) =>
            mode' = mode]_vars

\* 'r' was pressed in mode recoil: the mode is kept and the figure redrawn
C3_Witness ==
    /\ last.kind = "on_key"
    /\ last.event.key = "r"
    /\ last.mode_was = "recoil"
    /\ mode = "recoil"
    /\ draws = 1
    /\ printed # <<>>


\* the detail report of candidate i as the specification gives it
IsDetailReport(out, i) ==
    LET sh == plans[i + 1].sh
        benefit == sh.total_recoil_benefit
    IN  /\ Len(out) = 4
        /\ out[1] = [tag |-> "header", idx |-> i]
        /\ out[2].tag = "preset"
        /\ out[2].id = sh.origin_preset_id
        /\ out[2].name = sh.origin_preset_name
        /\ out[3].tag = "summary"
        /\ out[3].cost = Fmt(sh.total_cost, 0)
        /\ out[3].ergo = Fmt(base_ergo + sh.total_ergo, 1)
        /\ out[3].ergo_delta = FmtSigned(sh.total_ergo, 2)
        /\ out[3].ver = Fmt(base_recoil_ver - (benefit * base_recoil_ver) \div 100, 1)
        /\ out[3].ver_delta = FmtSigned(0 - benefit, 2)
        /\ out[3].hor = Fmt(base_recoil_hor - (benefit * base_recoil_hor) \div 100, 1)
        /\ out[3].items = Len(sh.items)
        /\ out[4] = [tag |-> "print_scheme_tree", node |-> plans[i + 1].node]

\* the line the terminal loop read last, trimmed and case-folded
Normalized == lower(strip(last.line))

QuitWords == { <<"q">>, <<"q", "u", "i", "t">>, <<"e", "x", "i", "t">> }

\* C4: the terminal loop handles a line, trimmed and case-folded, in exactly one of
\* five ways: the empty string reprompts with no output; 'q', 'quit' or 'exit' ends the
\* loop; any other non-numeric string prints the usage error and reprompts; a numeric
\* string with a value outside [0, count) prints the range error naming 0 .. count-1
\* and reprompts; a numeric string with a value i in [0, count) prints the detail
\* report of candidate i and reprompts.
C4_FiveWays ==
    last.kind = "TerminalLoop" =>
        LET s == Normalized
            i == int(s).val
        IN  IF s = <<>> THEN pc = "input" /\ printed = <<>>
            ELSE IF s \in QuitWords THEN pc = "done" /\ printed = <<>>
            ELSE IF ~isdigit(s) THEN pc = "input" /\ printed = <<[tag |-> "usage"]>>
            ELSE IF i \notin Indices
            THEN /\ pc = "input"
                 /\ printed = <<[tag |-> "range", lo |-> 0, hi |-> Len(plans) - 1]>>
            ELSE pc = "input" /\ IsDetailReport(printed, i)

\* C5: the terminal loop ends exactly on a line that normalizes to 'q', 'quit' or
\* 'exit': no other line ends it, such a line ends it at once, and no step of the loop,
\* the last one included, changes the mode, the coordinates, the plotted points or the
\* tooltip.
C5_EndsOnQuitOnly ==
    /\ [](last.kind = "TerminalLoop" => (pc # "input" <=> Normalized \in QuitWords))
    /\ [](last.kind = "TerminalLoop" /\ Normalized \in QuitWords => pc = "done")
    /\ [][last'.kind = "TerminalLoop" => view' = view]_vars

\* C6: the routine never raises to its caller: whatever is typed and whatever event
\* arrives, it absorbs the condition or prints a message and goes on.
C6_NeverRaises == pc # "raised"

\* C7: called with an empty candidate list the routine prints one informational
\* message and returns: no figure, no callback, no projection, no terminal loop.
C7_EmptyList ==
    (Len(plans) = 0 /\ pc # "start") =>
        /\ pc = "returned"
        /\ last.kind = "Entry"
        /\ printed = <<[tag |-> "no_plans"]>>
        /\ ~fig
        /\ handlers = {}
        /\ mode = "unset"
        /\ xs = <<>>
        /\ ys = <<>>
        /\ scatter.none
        /\ annot.none
        /\ draws = 0

\* the routine has returned on an empty list
C7_Witness ==
    /\ Len(plans) = 0
    /\ pc = "returned"
    /\ Len(printed) = 1

\* a pointer-move that is off the plot region, or in it and on no point
OffPoints(event) == ~event.inaxes \/ ~event.contains

\* C8: a pointer-move outside the plot region, or inside it on no point, hides a
\* visible tooltip and requests exactly one redraw; with the tooltip already hidden it
\* changes nothing and requests no redraw.
C8_HoverOff ==
    [][(last'.kind = "on_hover" /\ OffPoints(last'.event)) =>
         /\ mode' = mode /\ xs' = xs /\ ys' = ys /\ scatter' = scatter
         /\ IF annot.visible
            THEN /\ annot' = [annot EXCEPT !.visible = FALSE]
                 /\ draws' = 1
            ELSE /\ annot' = annot
                 /\ draws' = 0]_vars

\* the pointer left the plot region over a visible tooltip, which is now hidden
C8_Witness ==
    /\ last.kind = "on_hover"
    /\ ~last.event.inaxes
    /\ last.was_visible
    /\ ~annot.visible
    /\ annot.text # <<>>
    /\ draws = 1

\* a click whose first hit is a candidate
ClickedOn(i) ==
    /\ last.kind = "on_pick"
    /\ last.event.has_ind
    /\ Len(last.event.ind) > 0
    /\ last.event.ind[1] = i

\* a line typed at the prompt that is the decimal number i
LookedUp(i) ==
    /\ last.kind = "TerminalLoop"
    /\ int(Normalized).ok
    /\ int(Normalized).val = i

\* C9: the detail report of an index i in range is the same from a click whose first
\* hit is i and from the terminal lookup of i, whatever the mode, the tooltip and the
\* events before: index i, final ergonomics base_ergo + ergo_i, final recoils
\* baseline - benefit_i * baseline, the item count, then the tree printer called with
\* the tree handle of candidate i (benefit 0.1, ergo 5 on baselines 10/40/30 give 15.0,
\* 36.0 and 27.0).
C9_OneReport ==
    /\ \A i \in Indices :
          /\ PickReport(i) = TerminalReport(i)
          /\ ClickedOn(i) => printed = PickReport(i) /\ IsDetailReport(printed, i)
          /\ LookedUp(i) => printed = TerminalReport(i) /\ IsDetailReport(printed, i)
    /\ (/\ ClickedOn(0) \/ LookedUp(0)
        /\ plans = ScenarioPlans
        /\ <<base_ergo, base_recoil_ver, base_recoil_hor>> = ScenarioBaselines) =>
          /\ printed[3].ergo = [m |-> 150, dp |-> 1, plus |-> FALSE]
          /\ printed[3].ver = [m |-> 360, dp |-> 1, plus |-> FALSE]
          /\ printed[3].hor = [m |-> 270, dp |-> 1, plus |-> FALSE]

\* a click on two points at once, in mode ergo, reports the first of them
C9_Witness ==
    /\ ClickedOn(0)
    /\ last.event.ind = <<0, 1>>
    /\ mode = "ergo"
    /\ plans = ScenarioPlans
    /\ printed[3].ver.m = 360

\* the tooltip text of candidate i as the specification gives it
IsTooltipText(text, i) ==
    LET sh == plans[i + 1].sh
        name == sh.origin_preset_name
    IN  /\ Len(text) = (IF name.none \/ name.str = <<>> THEN 5 ELSE 6)
        /\ text[1].nums = <<[m |-> i, dp |-> 0, plus |-> FALSE]>>
        /\ text[2].nums = <<Fmt(sh.total_cost, 0)>>
        /\ text[3].nums = <<Fmt(base_recoil_ver - sh.total_recoil_benefit, 1),
                            FmtSigned(0 - sh.total_recoil_benefit, 2)>>
        /\ text[4].nums = <<Fmt(base_recoil_hor - sh.total_recoil_benefit, 1)>>
        /\ text[5].nums = <<Fmt(base_ergo + sh.total_ergo, 1),
                            FmtSigned(sh.total_ergo, 2)>>
        /\ Len(text) = 6 =>
              /\ Len(text[6].str) <= 40
              /\ \A k \in 1..Len(text[6].str) :
                    text[6].str[k] = (IF name.str[k] = "\n" THEN " " ELSE name.str[k])
              /\ Len(text[6].str) < 40 => Len(text[6].str) = Len(name.str)

\* a pointer-move whose first hit is a candidate
HoveredOn(i) ==
    /\ last.kind = "on_hover"
    /\ last.event.inaxes
    /\ last.event.contains
    /\ last.event.has_ind
    /\ Len(last.event.ind) > 0
    /\ last.event.ind[1] = i

\* C10: the tooltip text for index i depends on i, the Summary at i and the baselines
\* only, not on the display mode or on the key and pointer events before, and it uses
\* the unscaled values base_recoil_vertical - benefit_i and
\* base_recoil_horizontal - benefit_i.
C10_TooltipText ==
    \A i \in Indices :
        HoveredOn(i) => annot.visible /\ IsTooltipText(annot.text, i)

\* the tooltip of the second candidate is up in mode ergo
C10_Witness ==
    /\ Len(plans) = 2
    /\ HoveredOn(1)
    /\ mode = "ergo"
    /\ annot.visible
    /\ annot.text = TooltipText(1)


\* the recoils the tooltip on show gives: vertical, horizontal
TooltipRecoils == <<annot.text[3].nums[1], annot.text[4].nums[1]>>

\* the recoils the detail report of candidate i gives, by click and by lookup
ReportRecoils(i) ==
    { <<PickReport(i)[3].ver, PickReport(i)[3].hor>>,
      <<TerminalReport(i)[3].ver, TerminalReport(i)[3].hor>> }

Abs(n) == IF n < 0 THEN 0 - n ELSE n

\* benefit times the distance of the baseline from 1 is more than one tenth
\* (benefit and baseline in hundredths)
MoreThanATenthApart(benefit, baseline) == Abs(benefit * (baseline - 100)) > 1000

\* C11 as stated: for a candidate with a benefit other than 0, the recoil the tooltip
\* shows and the recoil the detail report shows, each rounded to one decimal place,
\* differ unless the baseline of that recoil is 1.
C11_ShownRecoilsDiffer ==
    \A i \in Indices :
        (HoveredOn(i) /\ plans[i + 1].sh.total_recoil_benefit # 0) =>
            \A r \in ReportRecoils(i) :
                /\ base_recoil_ver # 100 => TooltipRecoils[1] # r[1]
                /\ base_recoil_hor # 100 => TooltipRecoils[2] # r[2]

\* C11 as amended: the two shown recoils differ whenever benefit_i times the distance
\* of the baseline from 1 is more than 0.1; with the baseline at 1, or the benefit at
\* 0, they are the same.
C11_ShownRecoilsDifferByATenth ==
    \A i \in Indices :
        HoveredOn(i) =>
            LET benefit == plans[i + 1].sh.total_recoil_benefit IN
            \A r \in ReportRecoils(i) :
                /\ MoreThanATenthApart(benefit, base_recoil_ver) => TooltipRecoils[1] # r[1]
                /\ MoreThanATenthApart(benefit, base_recoil_hor) => TooltipRecoils[2] # r[2]
                /\ (benefit = 0 \/ base_recoil_ver = 100) => TooltipRecoils[1] = r[1]
                /\ (benefit = 0 \/ base_recoil_hor = 100) => TooltipRecoils[2] = r[2]

\* the tooltip of a candidate of benefit 0.1 shows 39.9 where its report shows 36.0
C11_Witness ==
    /\ Len(plans) > 0
    /\ HoveredOn(0)
    /\ plans[1].sh.total_recoil_benefit = 10
    /\ base_recoil_ver = Units(40)
    /\ TooltipRecoils[1].m = 399
    /\ TerminalReport(0)[3].ver.m = 360


\* the y of candidate i under mode m as the specification gives it
ProjectedY(m, i) ==
    LET sh == plans[i + 1].sh IN
    IF m = "recoil"
    THEN base_recoil_hor - (sh.total_recoil_benefit * base_recoil_hor) \div 100
    ELSE base_ergo + sh.total_ergo

\* C12: in every state after the first drawing, whatever key-presses, pointer-moves,
\* clicks and typed lines came before, xs and ys have one entry per candidate and are
\* the projection of the candidate list under the mode shown, and so are the plotted
\* points: no callback finds coordinates of the other mode.
C12_CoordinatesCurrent ==
    fig =>
        /\ mode \in Modes
        /\ Len(xs) = Len(plans)
        /\ Len(ys) = Len(plans)
        /\ Len(scatter.offsets) = Len(plans)
        /\ \A i \in Indices :
              /\ xs[i + 1] = plans[i + 1].sh.total_cost
              /\ ys[i + 1] = ProjectedY(mode, i)
              /\ scatter.offsets[i + 1] = <<xs[i + 1], ys[i + 1]>>

\* a pointer-move in mode ergo, after a mode switch, anchors the tooltip of the second
\* candidate at its final ergonomics
C12_Witness ==
    /\ Len(plans) = 2
    /\ HoveredOn(1)
    /\ mode = "ergo"
    /\ annot.xy = <<plans[2].sh.total_cost, base_ergo + plans[2].sh.total_ergo>>
    /\ ys[2] # base_recoil_hor - (plans[2].sh.total_recoil_benefit * base_recoil_hor) \div 100


\* C13: whenever the tooltip is visible, its text is the tooltip text of some index i
\* in [0, count) and its anchor is (xs[i], ys[i]) of the coordinates now held; so no
\* tooltip stays visible at the anchor of the mode before a switch.
C13_VisibleTooltipCurrent ==
    (fig /\ annot.visible) =>
        \E i \in Indices :
            /\ IsTooltipText(annot.text, i)
            /\ annot.xy = <<xs[i + 1], ys[i + 1]>>
            /\ annot.xy[2] = ProjectedY(mode, i)


\* a pointer-move that hits the scatter
HoverHit(event) ==
    event.inaxes /\ event.contains /\ event.has_ind /\ Len(event.ind) > 0

\* C14: after a key-press 'r' or 'e', whatever the state before it, the tooltip is a
\* new overlay, hidden and with empty content; and a hidden tooltip becomes visible
\* only by a pointer-move that hits a point.
C14_KeyHidesTooltip ==
    /\ []((last.kind = "on_key" /\ last.event.key \in BoundKeys) =>
            ~annot.none /\ ~annot.visible /\ annot.text = <<>> /\ annot.xy = <<0, 0>>)
    /\ [][(~annot.visible /\ annot'.visible) =>
            last'.kind = "on_hover" /\ HoverHit(last'.event)]_vars

\* 'e' was pressed over a visible tooltip, which is gone
C14_Witness ==
    /\ last.kind = "on_key"
    /\ last.event.key = "e"
    /\ last.was_visible
    /\ ~annot.visible
    /\ annot.text = <<>>


\* C15: a pointer-move inside the plot region that hits one or more points takes the
\* first of them, i, in point order: the tooltip gets the text of i and the anchor
\* (xs[i], ys[i]), is visible, and one redraw is requested, whether or not the tooltip
\* was visible before and whatever it showed.
C15_HoverShowsFirstHit ==
    \A i \in Indices :
        HoveredOn(i) =>
            /\ annot.visible
            /\ IsTooltipText(annot.text, i)
            /\ annot.xy = <<xs[i + 1], ys[i + 1]>>
            /\ annot.xy = <<plans[i + 1].sh.total_cost, ProjectedY(mode, i)>>
            /\ draws = 1
            /\ printed = <<>>

\* a pointer-move on two points at once, over a tooltip already visible, shows the
\* first of the two
C15_Witness ==
    /\ HoveredOn(0)
    /\ last.event.ind = <<0, 1>>
    /\ last.was_visible
    /\ annot.visible
    /\ annot.text = TooltipText(0)
    /\ annot.xy = <<xs[1], ys[1]>>
    /\ draws = 1


\* the event delivers a first index that is no candidate's
FirstIndexOutOfRange(event) ==
    /\ event.has_ind
    /\ Len(event.ind) > 0
    /\ event.ind[1] \notin Indices

\* C16: an index outside [0, count) that arrives with a pointer-move or a click is
\* ignored: nothing is printed, the tree printer is not called, and the mode, the
\* coordinates, the plotted points and the tooltip's visibility, text and anchor stay
\* as they were.
C16_OutOfRangeIgnored ==
    [][(\/ last'.kind = "on_hover" /\ HoverHit(last'.event)
           /\ FirstIndexOutOfRange(last'.event)
        \/ last'.kind = "on_pick" /\ FirstIndexOutOfRange(last'.event)) =>
         /\ printed' = <<>>
         /\ view' = view]_vars


\* the steps that leave the view as it is: one pass of the terminal loop, one click
ViewReaders == {"TerminalLoop", "on_pick"}

\* the callbacks that write the view once the first drawing is made
ViewWriters == {"on_key", "on_hover"}

\* C17: no pass of the terminal loop (prompt, empty line, usage message, range message,
\* detail report, exit) changes the mode, the coordinates, the plotted points or the
\* tooltip's visibility, text and anchor, however the passes interleave with events of
\* the drawing surface, and no click does; after the first drawing the view changes
\* only in a key-press or pointer-move callback.
C17_LoopAndClickKeepView ==
    /\ [][last'.kind \in ViewReaders =>
            /\ mode' = mode
            /\ xs' = xs /\ ys' = ys
            /\ scatter' = scatter
            /\ annot' = annot]_vars
    /\ [][fig /\ view' # view => last'.kind \in ViewWriters]_vars

\* a detail report typed for at the terminal while the second mode is on screen with
\* the tooltip of a point showing
C17_Witness ==
    /\ Len(plans) = 2
    /\ last.kind = "TerminalLoop"
    /\ LookedUp(1)
    /\ IsDetailReport(printed, 1)
    /\ mode = "ergo"
    /\ annot.visible
    /\ IsTooltipText(annot.text, 0)

====
